---- MODULE Spec2Model ----
(***************************************************************************)
(* One call of sankey(before, after, colorDict, aspect, rightColor) from   *)
(* sankey.py, as a state machine whose steps are the statements and loop   *)
(* iterations of the function body.                                        *)
(*                                                                         *)
(* Vertical coordinates are Python floats, IEEE 754 binary64.  A           *)
(* coordinate is held exactly, as a whole number of units of 2^-UnitBits   *)
(* written in three limbs [h, m, l] of LimbBits bits, and every float      *)
(* operation of the source is the exact operation followed by rounding to  *)
(* MantissaBits significant bits, ties to even.  All coordinates of the    *)
(* function are non-negative.                                              *)
(*                                                                         *)
(* The samples of a ribbon after the two np.convolve passes are not held   *)
(* as numbers: their last bits depend on the summation order of the        *)
(* library.  A ribbon holds, for its first and its last sample, the set of *)
(* values of the step array that the sample averages.                      *)
(***************************************************************************)
EXTENDS Integers, Sequences, FiniteSets, TLC

\* Bounds of the model: the longest input sequence and the number of
\* distinct label values the inputs are drawn from.
MaxLen == 3
NumLabels == 4

Labels == 1..NumLabels

\* Python float.
MantissaBits == 53
UnitBits == 58
LimbBits == 24
LimbBase == 2 ^ LimbBits

\* The literal 0.02 as a float: 5764607523034235 * 2^-58.
PadFactor == [h |-> 20, m |-> 8053063, l |-> 11408507]

KernelTaps == 20
HalfSamples == 50
aspect == 4

VARIABLES
    before,      \* argument: sequence of labels
    after,       \* argument: sequence of labels
    colorGiven,  \* FALSE when the colorDict argument is None
    colorDict,   \* label -> colour
    rightColor,  \* argument
    pc,          \* position in the function body
    err,         \* the exception that ended the call, or "none"
    figures,     \* number of figures created by the call
    rc,          \* plotting style settings applied by the call
    axisOff,     \* axis decorations of the current axes disabled
    df,          \* the DataFrame: one row per observation
    allLabels,   \* sequence of categories
    ns,          \* ns[l][l2]: flow count
    widths,      \* widths[l]: geometry record of category l
    topEdge,     \* local variable topEdge: [bound, val]
    xMax,        \* local variable xMax: [bound, num, den], value num / den
    i, j,        \* loop positions
    drawn        \* sequence of drawing calls issued on the surface

vars == <<before, after, colorGiven, colorDict, rightColor, pc, err, figures,
          rc, axisOff, df, allLabels, ns, widths, topEdge, xMax, i, j, drawn>>

inputs == <<before, after, colorGiven, rightColor>>

----------------------------------------------------------------------------
\* Sequences and counting

SeqsUpTo(S, n) == UNION {[1..k -> S] : k \in 0..n}

Range(s) == {s[k] : k \in DOMAIN s}

RECURSIVE Reverse(_)
Reverse(s) == IF s = <<>> THEN <<>> ELSE Reverse(Tail(s)) \o <<Head(s)>>

EmptyMap == [x \in {} |-> 0]

\* Counter(iterable): the count of every element seen, the keys kept in the
\* order in which they were first seen.
RECURSIVE Counter(_, _, _)
Counter(s, keys, cnt) ==
    IF s = <<>> THEN [keys |-> keys, cnt |-> cnt]
    ELSE LET x == Head(s) IN
         IF x \in DOMAIN cnt
         THEN Counter(Tail(s), keys, [cnt EXCEPT ![x] = @ + 1])
         ELSE Counter(Tail(s), Append(keys, x), cnt @@ (x :> 1))

\* Insert x into a sequence sorted by descending count, after every element
\* whose count is not smaller (a stable sort with reverse=True keeps elements
\* of equal count in their original order).
RECURSIVE InsertDesc(_, _, _)
InsertDesc(x, sorted, cnt) ==
    IF sorted = <<>> THEN <<x>>
    ELSE IF cnt[Head(sorted)] >= cnt[x]
         THEN <<Head(sorted)>> \o InsertDesc(x, Tail(sorted), cnt)
         ELSE <<x>> \o sorted

RECURSIVE SortDesc(_, _, _)
SortDesc(keys, sorted, cnt) ==
    IF keys = <<>> THEN sorted
    ELSE SortDesc(Tail(keys), InsertDesc(Head(keys), sorted, cnt), cnt)

\* Counter.most_common(): the keys by descending count.
most_common(c) == SortDesc(c.keys, <<>>, c.cnt)

\* Counter(np.r_[before, after]).most_common() ... [:, 0][::-1]
AllLabelsNoReverse(b, a) == most_common(Counter(b \o a, <<>>, EmptyMap))
AllLabelsOf(b, a) == Reverse(most_common(Counter(b \o a, <<>>, EmptyMap)))

\* len(df[(df.before == l) & (df.after == l2)])
FlowCountOr(d, l, l2) ==
    Cardinality({k \in DOMAIN d : d[k].before = l \/ d[k].after = l2})
FlowCount(d, l, l2) ==
    Cardinality({k \in DOMAIN d : d[k].before = l /\ d[k].after = l2})

\* len(df[df.before == l]) and len(df[df.after == l])
LeftCount(d, l) == Cardinality({k \in DOMAIN d : d[k].before = l})
RightCount(d, l) == Cardinality({k \in DOMAIN d : d[k].after = l})

Max(x, y) == IF x >= y THEN x ELSE y

----------------------------------------------------------------------------
\* Float arithmetic

\* Carry between limbs.
Norm(h, m, l) ==
    LET m1 == m + (l \div LimbBase)
    IN [h |-> h + (m1 \div LimbBase), m |-> m1 % LimbBase, l |-> l % LimbBase]

\* float(n) for a Python int n.
FInt(n) == [h |-> n * 2 ^ (UnitBits - 2 * LimbBits), m |-> 0, l |-> 0]

RECURSIVE BitLen(_)
BitLen(n) == IF n = 0 THEN 0 ELSE 1 + BitLen(n \div 2)

\* Number of significant bits of x, in units.
Bits(x) == IF x.h > 0 THEN 2 * LimbBits + BitLen(x.h)
           ELSE IF x.m > 0 THEN LimbBits + BitLen(x.m)
           ELSE BitLen(x.l)

\* Round to nearest float, ties to even.  The s bits dropped are the low
\* s % LimbBits bits of limb number s \div LimbBits (0 is l, 1 is m, 2 is h)
\* and every limb below it; the kept bit that decides a tie is the next bit
\* of that limb.
Round(x) ==
    LET s == Bits(x) - MantissaBits
        k == s \div LimbBits
        p == 2 ^ (s % LimbBits)
        limb == IF k = 0 THEN x.l ELSE IF k = 1 THEN x.m ELSE x.h
        r == limb % p
        odd == (limb \div p) % 2 = 1
        lowZero == IF k = 0 THEN TRUE
                   ELSE IF k = 1 THEN x.l = 0
                   ELSE x.m = 0 /\ x.l = 0
        next == IF k = 1 THEN x.l ELSE x.m
        nextLowZero == IF k = 1 THEN TRUE ELSE x.l = 0
        above == IF p > 1
                 THEN 2 * r > p \/ (2 * r = p /\ ~lowZero)
                 ELSE 2 * next > LimbBase \/ (2 * next = LimbBase /\ ~nextLowZero)
        tie == IF p > 1
               THEN 2 * r = p /\ lowZero
               ELSE 2 * next = LimbBase /\ nextLowZero
        kept == IF k = 0 THEN [h |-> x.h, m |-> x.m, l |-> x.l - r]
                ELSE IF k = 1 THEN [h |-> x.h, m |-> x.m - r, l |-> 0]
                ELSE [h |-> x.h - r, m |-> 0, l |-> 0]
        step == IF k = 0 THEN [h |-> 0, m |-> 0, l |-> p]
                ELSE IF k = 1 THEN [h |-> 0, m |-> p, l |-> 0]
                ELSE [h |-> p, m |-> 0, l |-> 0]
    IN IF s <= 0 THEN x
       ELSE IF above \/ (tie /\ odd)
            THEN Norm(kept.h + step.h, kept.m + step.m, kept.l + step.l)
            ELSE kept

FAddExact(a, b) == Norm(a.h + b.h, a.m + b.m, a.l + b.l)

\* a + b, a - b (a >= b), 0.5 * a and a * n for an int n, as floats.
FAdd(a, b) == Round(FAddExact(a, b))
FSub(a, b) == Round(Norm(a.h - b.h, a.m - b.m, a.l - b.l))
FHalf(a) ==
    LET m1 == (a.h % 2) * LimbBase + a.m
        l1 == (m1 % 2) * LimbBase + a.l
    IN [h |-> a.h \div 2, m |-> m1 \div 2, l |-> l1 \div 2]

\* The exact product a * n, taken seven bits of n at a time so that no
\* limb product leaves the range of the integers.
RECURSIVE FMulExact(_, _)
FMulExact(a, n) ==
    IF n < 128 THEN Norm(a.h * n, a.m * n, a.l * n)
    ELSE LET q == FMulExact(a, n \div 128)
         IN FAddExact(Norm(q.h * 128, q.m * 128, q.l * 128),
                      Norm(a.h * (n % 128), a.m * (n % 128), a.l * (n % 128)))

FMulInt(a, n) == Round(FMulExact(a, n))

----------------------------------------------------------------------------
\* Layout

\* widths[allLabels[i - 1]]['top'] + 0.02 * len(df)
SlotBottomNoPad(prevTop, n) == prevTop
SlotBottom(prevTop, n) == FAdd(prevTop, FMulInt(PadFactor, n))

\* 0.5 * (top + bottom) - 0.5 * count
SideBottomFromTop(top, bottom, count) == FSub(top, FHalf(FInt(count)))
SideBottom(top, bottom, count) ==
    FSub(FHalf(FAdd(top, bottom)), FHalf(FInt(count)))

\* The record myD built for category l, the i-th of allLabels.
WidthsRecord(d, l, first, prevTop) ==
    LET left == LeftCount(d, l)
        right == RightCount(d, l)
        total == Max(left, right)
        bottom == IF first THEN FInt(0) ELSE SlotBottom(prevTop, Len(d))
        top == IF first THEN FInt(total) ELSE FAdd(bottom, FInt(total))
    IN [left |-> left, right |-> right, total |-> total,
        bottom |-> bottom, top |-> top,
        leftBottom |-> SideBottom(top, bottom, left),
        rightBottom |-> SideBottom(top, bottom, right)]

----------------------------------------------------------------------------
\* Ribbons

\* ys before smoothing: 50 samples at the left centre, then 50 at the right
\* centre (0-based sample index k).
StepSide(k) == IF k < HalfSamples THEN "left" ELSE "right"

StepLevel(w, n, l, l2, side) ==
    IF side = "left"
    THEN FAdd(w[l].leftBottom, FHalf(FInt(n[l][l2])))
    ELSE FAdd(w[l2].rightBottom, FHalf(FInt(n[l][l2])))

\* np.convolve(ys, 0.05 * np.ones(20), mode='valid'): output sample m is a
\* weighted sum of the input samples m .. m + 19.  The input samples that
\* the output samples S depend on:
ConvolveSupport(S) == UNION {m..(m + KernelTaps - 1) : m \in S}

\* The samples of the step array that sample k of ys depends on after the
\* two passes.
SmoothedSupport(k) == ConvolveSupport(ConvolveSupport({k}))

\* len(ys) after the two passes.
NumSamples == 2 * HalfSamples - 2 * (KernelTaps - 1)

\* The parts of the step array that the first and the last sample of ys
\* average.
FirstSampleSides == {StepSide(m) : m \in SmoothedSupport(0)}
LastSampleSides == {StepSide(m) : m \in SmoothedSupport(NumSamples - 1)}

\* widths[l]['leftBottom'] += ns[l][l2]; widths[l2]['rightBottom'] += ns[l][l2]
AdvanceLeftOnly(w, n, l, l2) ==
    [w EXCEPT ![l].leftBottom = FAdd(@, FInt(n[l][l2]))]
AdvanceCursors(w, n, l, l2) ==
    [w EXCEPT ![l].leftBottom = FAdd(@, FInt(n[l][l2])),
              ![l2].rightBottom = FAdd(@, FInt(n[l][l2]))]

\* The fill_between call of the strip (l, l2): the curve ys -/+ 0.5 * n,
\* with the values of the step array that its first and its last sample
\* average.
Ribbon(w, n, l, l2, lc, cd) ==
    [kind |-> "ribbon", l |-> l, l2 |-> l2, n |-> n[l][l2],
     leftInputs |-> {StepLevel(w, n, l, l2, side) : side \in FirstSampleSides},
     rightInputs |-> {StepLevel(w, n, l, l2, side) : side \in LastSampleSides},
     alpha |-> 65, color |-> cd[lc]]

\* The four drawing calls of one category in the end-cap loop.
EndCaps(w, l, cd) ==
    << [kind |-> "block", side |-> "left", l |-> l,
        lo |-> w[l].leftBottom, hi |-> FAdd(w[l].leftBottom, FInt(w[l].left)),
        alpha |-> 99, color |-> cd[l]],
       [kind |-> "block", side |-> "right", l |-> l,
        lo |-> w[l].rightBottom,
        hi |-> FAdd(w[l].rightBottom, FInt(w[l].right)),
        alpha |-> 99, color |-> cd[l]],
       [kind |-> "text", side |-> "left", l |-> l, ha |-> "right",
        y |-> FAdd(w[l].leftBottom, FHalf(FInt(w[l].left)))],
       [kind |-> "text", side |-> "right", l |-> l, ha |-> "left",
        y |-> FAdd(w[l].rightBottom, FHalf(FInt(w[l].right)))] >>

----------------------------------------------------------------------------
\* The call

SuppliedColor(l) == 100 + l

\* The colorDict and rightColor arguments of the calls considered: no
\* colorDict, strips coloured by their left label; a colorDict for every
\* label value, strips coloured by their right label; a colorDict that lacks
\* the first label value, strips coloured by their left label.
ColorArguments ==
    { [given |-> FALSE, keys |-> {}, rightColor |-> FALSE],
      [given |-> TRUE, keys |-> Labels, rightColor |-> TRUE],
      [given |-> TRUE, keys |-> Labels \ {1}, rightColor |-> FALSE] }

\* Labels are compared for equality only, so the inputs are taken up to
\* renaming: the labels of before followed by after appear in the order
\* 1, 2, 3, ... of their first occurrence.
FirstOccurrenceOrder(s) ==
    \A k \in DOMAIN s :
        LET earlier == {s[m] : m \in 1..(k - 1)}
        IN s[k] \in earlier \/ s[k] = Cardinality(earlier) + 1

Unbound == [bound |-> FALSE, val |-> FInt(0)]

Init ==
    /\ before \in SeqsUpTo(Labels, MaxLen)
    /\ FirstOccurrenceOrder(before)
    /\ after \in SeqsUpTo(Labels, MaxLen)
    /\ FirstOccurrenceOrder(before \o after)
    /\ \E arg \in ColorArguments :
           /\ colorGiven = arg.given
           /\ colorDict = [l \in arg.keys |-> SuppliedColor(l)]
           /\ rightColor = arg.rightColor
    /\ pc = "figure"
    /\ err = "none"
    /\ figures = 0
    /\ rc = {}
    /\ axisOff = FALSE
    /\ df = <<>>
    /\ allLabels = <<>>
    /\ ns = EmptyMap
    /\ widths = EmptyMap
    /\ topEdge = Unbound
    /\ xMax = [bound |-> FALSE, num |-> FInt(0), den |-> aspect]
    /\ i = 0
    /\ j = 0
    /\ drawn = <<>>

Raise(e) == pc' = "error" /\ err' = e

\* plt.figure(); plt.rc(...); plt.rc(...); sns.set_style(...)
NewFigure ==
    /\ pc = "figure"
    /\ figures' = figures + 1
    /\ rc' = {"usetex=False", "font=serif", "style=white"}
    /\ pc' = "dataframe"
    /\ UNCHANGED <<inputs, colorDict, err, axisOff, df, allLabels, ns, widths,
                   topEdge, xMax, i, j, drawn>>

\* df = pd.DataFrame({'before': before, 'after': after}, index=range(len(before)))
MakeDataFrame ==
    /\ pc = "dataframe"
    /\ IF Len(before) # Len(after)
       THEN /\ Raise("ValueError")
            /\ df' = df
       ELSE /\ df' = [k \in 1..Len(before) |->
                        [before |-> before[k], after |-> after[k]]]
            /\ pc' = "labels"
            /\ err' = err
    /\ UNCHANGED <<inputs, colorDict, figures, rc, axisOff, allLabels, ns,
                   widths, topEdge, xMax, i, j, drawn>>

\* allLabels = np.array(Counter(np.r_[before, after]).most_common())[:, 0][::-1]
\* The index [:, 0] of the one-dimensional array built from an empty list
\* raises IndexError.
ComputeLabels ==
    /\ pc = "labels"
    /\ IF before \o after = <<>>
       THEN /\ Raise("IndexError")
            /\ allLabels' = allLabels
       ELSE /\ allLabels' = AllLabelsOf(before, after)
            /\ pc' = "colors"
            /\ err' = err
    /\ UNCHANGED <<inputs, colorDict, figures, rc, axisOff, df, ns, widths,
                   topEdge, xMax, i, j, drawn>>

\* if colorDict is None: colorDict[l] = cls[i] for i, l in enumerate(allLabels)
AssignColors ==
    /\ pc = "colors"
    /\ colorDict' = IF colorGiven THEN colorDict
                    ELSE [l \in Range(allLabels) |->
                            (CHOOSE k \in DOMAIN allLabels : allLabels[k] = l) - 1]
    /\ pc' = "ns"
    /\ i' = 1
    /\ UNCHANGED <<inputs, err, figures, rc, axisOff, df, allLabels, ns,
                   widths, topEdge, xMax, j, drawn>>

\* One iteration of: for l in allLabels: myD = {...}; ns[l] = myD
NsRow ==
    /\ pc = "ns"
    /\ i <= Len(allLabels)
    /\ LET l == allLabels[i]
           myD == [l2 \in Range(allLabels) |-> FlowCount(df, l, l2)]
       IN ns' = [x \in DOMAIN ns \cup {l} |-> IF x = l THEN myD ELSE ns[x]]
    /\ i' = i + 1
    /\ UNCHANGED <<inputs, colorDict, pc, err, figures, rc, axisOff, df,
                   allLabels, widths, topEdge, xMax, j, drawn>>

NsDone ==
    /\ pc = "ns"
    /\ i > Len(allLabels)
    /\ pc' = "widths"
    /\ i' = 1
    /\ UNCHANGED <<inputs, colorDict, err, figures, rc, axisOff, df,
                   allLabels, ns, widths, topEdge, xMax, j, drawn>>

\* One iteration of: for i, l in enumerate(allLabels): ... widths[l] = myD
WidthsRow ==
    /\ pc = "widths"
    /\ i <= Len(allLabels)
    /\ LET l == allLabels[i]
           prevTop == IF i = 1 THEN FInt(0) ELSE widths[allLabels[i - 1]].top
           myD == WidthsRecord(df, l, i = 1, prevTop)
       IN /\ widths' = [x \in DOMAIN widths \cup {l} |->
                          IF x = l THEN myD ELSE widths[x]]
          /\ topEdge' = IF i = 1 THEN topEdge
                        ELSE [bound |-> TRUE, val |-> myD.top]
    /\ i' = i + 1
    /\ UNCHANGED <<inputs, colorDict, pc, err, figures, rc, axisOff, df,
                   allLabels, ns, xMax, j, drawn>>

WidthsDone ==
    /\ pc = "widths"
    /\ i > Len(allLabels)
    /\ pc' = "xmax"
    /\ UNCHANGED <<inputs, colorDict, err, figures, rc, axisOff, df,
                   allLabels, ns, widths, topEdge, xMax, i, j, drawn>>

\* xMax = topEdge / aspect; topEdge is assigned only in the else branch of
\* the widths loop.
ComputeXMax ==
    /\ pc = "xmax"
    /\ IF ~topEdge.bound
       THEN /\ Raise("UnboundLocalError")
            /\ UNCHANGED <<xMax, i>>
       ELSE /\ xMax' = [bound |-> TRUE, num |-> topEdge.val, den |-> aspect]
            /\ pc' = "caps"
            /\ err' = err
            /\ i' = 1
    /\ UNCHANGED <<inputs, colorDict, figures, rc, axisOff, df, allLabels,
                   ns, widths, topEdge, j, drawn>>

\* One iteration of the end-cap loop: colorDict[l] is looked up while the
\* arguments of the first fill_between are evaluated.
DrawCaps ==
    /\ pc = "caps"
    /\ i <= Len(allLabels)
    /\ LET l == allLabels[i] IN
       IF l \notin DOMAIN colorDict
       THEN /\ Raise("KeyError")
            /\ UNCHANGED <<drawn, i>>
       ELSE /\ drawn' = drawn \o EndCaps(widths, l, colorDict)
            /\ i' = i + 1
            /\ UNCHANGED <<pc, err>>
    /\ UNCHANGED <<inputs, colorDict, figures, rc, axisOff, df, allLabels,
                   ns, widths, topEdge, xMax, j>>

CapsDone ==
    /\ pc = "caps"
    /\ i > Len(allLabels)
    /\ pc' = "strips"
    /\ i' = 1
    /\ j' = 1
    /\ UNCHANGED <<inputs, colorDict, err, figures, rc, axisOff, df,
                   allLabels, ns, widths, topEdge, xMax, drawn>>

\* One iteration of the inner loop of "Plot strips".
DrawStrip ==
    /\ pc = "strips"
    /\ i <= Len(allLabels)
    /\ LET l == allLabels[i]
           l2 == allLabels[j]
           lc == IF rightColor THEN l2 ELSE l
       IN /\ widths' = AdvanceCursors(widths, ns, l, l2)
          /\ IF lc \notin DOMAIN colorDict
             THEN /\ Raise("KeyError")
                  /\ UNCHANGED <<drawn, i, j>>
             ELSE /\ drawn' = Append(drawn, Ribbon(widths, ns, l, l2, lc, colorDict))
                  /\ IF j < Len(allLabels)
                     THEN j' = j + 1 /\ i' = i
                     ELSE j' = 1 /\ i' = i + 1
                  /\ UNCHANGED <<pc, err>>
    /\ UNCHANGED <<inputs, colorDict, figures, rc, axisOff, df, allLabels,
                   ns, topEdge, xMax>>

StripsDone ==
    /\ pc = "strips"
    /\ i > Len(allLabels)
    /\ pc' = "axisoff"
    /\ UNCHANGED <<inputs, colorDict, err, figures, rc, axisOff, df,
                   allLabels, ns, widths, topEdge, xMax, i, j, drawn>>

\* plt.gca().axis('off')
AxisOff ==
    /\ pc = "axisoff"
    /\ axisOff' = TRUE
    /\ pc' = "done"
    /\ UNCHANGED <<inputs, colorDict, err, figures, rc, df, allLabels, ns,
                   widths, topEdge, xMax, i, j, drawn>>

Next ==
    \/ NewFigure
    \/ MakeDataFrame
    \/ ComputeLabels
    \/ AssignColors
    \/ NsRow
    \/ NsDone
    \/ WidthsRow
    \/ WidthsDone
    \/ ComputeXMax
    \/ DrawCaps
    \/ CapsDone
    \/ DrawStrip
    \/ StripsDone
    \/ AxisOff

Spec == Init /\ [][Next]_vars

----------------------------------------------------------------------------
\* Vocabulary of the properties, defined on the arguments of the call and on
\* the drawing calls, not through the operators of the model.

Terminated == pc \in {"done", "error"}

\* Order of two coordinates.
FLt(a, b) == \/ a.h < b.h
             \/ a.h = b.h /\ a.m < b.m
             \/ a.h = b.h /\ a.m = b.m /\ a.l < b.l
FLeq(a, b) == a = b \/ FLt(a, b)

\* The spacing of the floats at x (one unit in the last place), in units.
Ulp(x) == LET s == Bits(x) - MantissaBits
          IN [h |-> 0, m |-> 0, l |-> IF s <= 0 THEN 1 ELSE 2 ^ s]

cat == before \o after

Occurrences(s, x) == Cardinality({k \in DOMAIN s : s[k] = x})

\* Combined frequency of x, and the position at which x is first met.
Frequency(x) == Occurrences(before, x) + Occurrences(after, x)
FirstMet(x) == CHOOSE k \in DOMAIN cat :
                   cat[k] = x /\ \A m \in 1..(k - 1) : cat[m] # x

NoDuplicates(s) == \A a, b \in DOMAIN s : s[a] = s[b] => a = b

ListsTheCategories(s) == Range(s) = Range(cat) /\ NoDuplicates(s)

DescendingFrequency(s) ==
    \A a, b \in DOMAIN s : a < b =>
        \/ Frequency(s[a]) > Frequency(s[b])
        \/ Frequency(s[a]) = Frequency(s[b]) /\ FirstMet(s[a]) < FirstMet(s[b])

AscendingFrequency(s) ==
    \A a, b \in DOMAIN s : a < b =>
        \/ Frequency(s[a]) < Frequency(s[b])
        \/ Frequency(s[a]) = Frequency(s[b]) /\ FirstMet(s[a]) > FirstMet(s[b])

LayoutComplete == allLabels # <<>> /\ DOMAIN widths = Range(allLabels)

\* The category whose slot starts at 0.
BottomCategories == {l \in DOMAIN widths : widths[l].bottom = FInt(0)}
TopCategories == {l \in DOMAIN widths :
                     \A m \in DOMAIN widths :
                         FLeq(widths[m].bottom, widths[l].bottom)}

IsRibbon(r) == r.kind = "ribbon"
IsBlock(r) == r.kind = "block"
Ribbons == SelectSeq(drawn, IsRibbon)
RibbonsFrom(l) == LET from(r) == r.kind = "ribbon" /\ r.l = l
                  IN SelectSeq(drawn, from)
RibbonsTo(l) == LET to(r) == r.kind = "ribbon" /\ r.l2 = l
                IN SelectSeq(drawn, to)
BlockOf(l, side) ==
    CHOOSE k \in DOMAIN drawn :
        drawn[k].kind = "block" /\ drawn[k].l = l /\ drawn[k].side = side

RECURSIVE SumSeq(_, _)
SumSeq(f(_), s) == IF s = <<>> THEN 0 ELSE f(Head(s)) + SumSeq(f, Tail(s))

----------------------------------------------------------------------------
\* C1 (as stated): once computed, allLabels lists the distinct labels of
\* before and after in descending order of combined frequency, equally
\* frequent labels in first-met order, and the category stacked at bottom = 0
\* is a most frequent one.
C1_DescendingOrder ==
    allLabels # <<>> =>
        /\ ListsTheCategories(allLabels)
        /\ DescendingFrequency(allLabels)
        /\ \A l \in BottomCategories :
               \A x \in Range(cat) : Frequency(l) >= Frequency(x)

\* C1 (amended): allLabels lists the distinct labels of before and after in
\* ascending order of combined frequency, equally frequent labels in the
\* reverse of first-met order; the category stacked at bottom = 0 is the
\* first of that sequence, a least frequent one, and the topmost slot belongs
\* to the last of it, a most frequent one.
C1_AscendingOrder ==
    allLabels # <<>> =>
        /\ ListsTheCategories(allLabels)
        /\ AscendingFrequency(allLabels)
        /\ BottomCategories \subseteq {allLabels[1]}
        /\ \A l \in BottomCategories :
               \A x \in Range(cat) : Frequency(l) <= Frequency(x)
        /\ LayoutComplete =>
               /\ BottomCategories = {allLabels[1]}
               /\ TopCategories = {allLabels[Len(allLabels)]}
               /\ \A l \in TopCategories :
                      \A x \in Range(cat) : Frequency(l) >= Frequency(x)

C1_Witness ==
    /\ pc = "done"
    /\ Len(allLabels) = 3
    /\ Frequency(allLabels[1]) = Frequency(allLabels[2])
    /\ Frequency(allLabels[2]) < Frequency(allLabels[3])
    /\ FirstMet(allLabels[1]) > FirstMet(allLabels[2])

----------------------------------------------------------------------------
\* C2: tiling.  Once the end caps are drawn, the ribbons drawn so far from
\* category l go to the categories in aggregated order; the first is placed
\* at the bottom of l's left block, each next one at the cursor where the
\* previous one ended, the cursor having advanced by exactly the flow count;
\* l's left cursor is the end of the last one, and after the last pair it is
\* the top of the left block as drawn, exactly l's left count above the
\* block's bottom.  The same on the right side, for the ribbons arriving at l
\* from the categories in aggregated order.  The sums of this property are
\* exact sums of the program's values.
CursorTrail(start, counts) ==
    LET cur[k \in 0..Len(counts)] ==
            IF k = 0 THEN start ELSE FAddExact(cur[k - 1], FInt(counts[k]))
    IN cur

TilesLeft(l) ==
    LET rs == RibbonsFrom(l)
        blk == drawn[BlockOf(l, "left")]
        cur == CursorTrail(blk.lo, [k \in DOMAIN allLabels |-> ns[l][allLabels[k]]])
    IN /\ \A k \in DOMAIN rs :
              /\ rs[k].l2 = allLabels[k]
              /\ rs[k].n = ns[l][allLabels[k]]
              /\ rs[k].leftInputs
                     = {FAddExact(cur[k - 1], FHalf(FInt(rs[k].n)))}
       /\ widths[l].leftBottom = cur[Len(rs)]
       /\ pc \in {"axisoff", "done"} =>
              /\ Len(rs) = Len(allLabels)
              /\ widths[l].leftBottom = blk.hi
              /\ blk.hi = FAddExact(blk.lo, FInt(Occurrences(before, l)))

TilesRight(l) ==
    LET rs == RibbonsTo(l)
        blk == drawn[BlockOf(l, "right")]
        cur == CursorTrail(blk.lo, [k \in DOMAIN allLabels |-> ns[allLabels[k]][l]])
    IN /\ \A k \in DOMAIN rs :
              /\ rs[k].l = allLabels[k]
              /\ rs[k].n = ns[allLabels[k]][l]
              /\ rs[k].rightInputs
                     = {FAddExact(cur[k - 1], FHalf(FInt(rs[k].n)))}
       /\ widths[l].rightBottom = cur[Len(rs)]
       /\ pc \in {"axisoff", "done"} =>
              /\ Len(rs) = Len(allLabels)
              /\ widths[l].rightBottom = blk.hi
              /\ blk.hi = FAddExact(blk.lo, FInt(Occurrences(after, l)))

C2_Tiling ==
    pc \in {"strips", "axisoff", "done"} =>
        \A l \in Range(allLabels) : TilesLeft(l) /\ TilesRight(l)

\* A finished call in which a category that is not the first of the stack
\* sends two non-empty ribbons, from a left block that starts below the
\* bottom of its slot.
C2_Witness ==
    /\ pc = "done"
    /\ \E l \in Range(allLabels) :
           LET rs == RibbonsFrom(l)
           IN /\ \E a, b \in DOMAIN rs : a < b /\ rs[a].n > 0 /\ rs[b].n > 0
              /\ FLt(drawn[BlockOf(l, "left")].lo, widths[l].bottom)

----------------------------------------------------------------------------
\* C3: conservation.  For every category c whose row of ns is computed, the
\* flow counts ns[c][d] over all categories d sum to the number of indices i
\* with before[i] = c; once every row is computed, the flow counts ns[s][c]
\* over all categories s sum to the number of indices i with after[i] = c.
C3_Conservation ==
    /\ \A c \in DOMAIN ns :
           LET out(d) == ns[c][d]
           IN SumSeq(out, allLabels) = Occurrences(before, c)
    /\ (allLabels # <<>> /\ DOMAIN ns = Range(allLabels)) =>
           \A c \in Range(allLabels) :
               LET in(s) == ns[s][c]
               IN SumSeq(in, allLabels) = Occurrences(after, c)

\* Every row computed, a category with two non-zero outgoing flows and a
\* category with none.
C3_Witness ==
    /\ allLabels # <<>>
    /\ DOMAIN ns = Range(allLabels)
    /\ \E c \in DOMAIN ns :
           Cardinality({d \in DOMAIN ns[c] : ns[c][d] > 0}) >= 2
    /\ \E c \in DOMAIN ns : \A d \in DOMAIN ns[c] : ns[c][d] = 0

----------------------------------------------------------------------------
\* C9: slot stacking.  With N the number of observations, the first category
\* of allLabels has bottom = 0, every later one has bottom = the previous
\* category's top + 0.02 * N, every one has top = bottom + max(left count,
\* right count), and the bottoms strictly increase along allLabels.  Sums and
\* the product are those of the program's floats.
C9_SlotStacking ==
    \A k \in DOMAIN allLabels :
        allLabels[k] \in DOMAIN widths =>
            LET w == widths[allLabels[k]]
                leftCount == Occurrences(before, allLabels[k])
                rightCount == Occurrences(after, allLabels[k])
            IN /\ k = 1 => w.bottom = FInt(0)
               /\ k > 1 =>
                      /\ w.bottom = FAdd(widths[allLabels[k - 1]].top,
                                         FMulInt(PadFactor, Len(before)))
                      /\ FLt(widths[allLabels[k - 1]].bottom, w.bottom)
               /\ w.top = FAdd(w.bottom,
                               FInt(IF leftCount >= rightCount
                                    THEN leftCount ELSE rightCount))

C9_Witness ==
    /\ LayoutComplete
    /\ Len(allLabels) = 3
    /\ FLt(widths[allLabels[2]].top, widths[allLabels[3]].bottom)
    /\ widths[allLabels[2]].left # widths[allLabels[2]].right

----------------------------------------------------------------------------
\* C10 (as stated): containment.  In every state, the left and the right
\* cursor of every category lie within the category's own slot [bottom, top],
\* and the slots of two different categories are disjoint.
SlotsDisjoint ==
    \A l, m \in DOMAIN widths :
        l # m => \/ FLt(widths[l].top, widths[m].bottom)
                 \/ FLt(widths[m].top, widths[l].bottom)

C10_Containment ==
    /\ \A l \in DOMAIN widths :
           /\ FLeq(widths[l].bottom, widths[l].leftBottom)
           /\ FLeq(widths[l].leftBottom, widths[l].top)
           /\ FLeq(widths[l].bottom, widths[l].rightBottom)
           /\ FLeq(widths[l].rightBottom, widths[l].top)
    /\ SlotsDisjoint

\* C10 (amended): in every state, no cursor lies above the top of its own
\* slot, none lies more than one unit in the last place of that top below
\* the slot's bottom, and the slots of two different categories are disjoint.
C10_ContainmentToRounding ==
    /\ \A l \in DOMAIN widths :
           LET w == widths[l]
           IN /\ FLeq(w.bottom, FAddExact(w.leftBottom, Ulp(w.top)))
              /\ FLeq(w.leftBottom, w.top)
              /\ FLeq(w.bottom, FAddExact(w.rightBottom, Ulp(w.top)))
              /\ FLeq(w.rightBottom, w.top)
    /\ SlotsDisjoint

\* Ribbon placement under way: the left cursor of a category started below
\* the bottom of its slot, and another category's left cursor has moved
\* strictly inside its slot.
C10_Witness ==
    /\ pc = "strips"
    /\ \E l \in DOMAIN widths :
           FLt(drawn[BlockOf(l, "left")].lo, widths[l].bottom)
    /\ \E l \in DOMAIN widths :
           /\ FLt(drawn[BlockOf(l, "left")].lo, widths[l].leftBottom)
           /\ FLt(widths[l].leftBottom, widths[l].top)

----------------------------------------------------------------------------
\* C4: a call with before = [] and after = [] finishes normally, with no
\* category and nothing drawn.
EmptyInput == before = <<>> /\ after = <<>>

C4_EmptyInputFinishes ==
    EmptyInput => /\ pc # "error"
                  /\ pc = "done" => allLabels = <<>> /\ drawn = <<>>

\* C5: with one distinct category mapped to itself the call finishes without
\* error, the diagram height is the top of the category's slot, and exactly
\* one ribbon is drawn, as high as the number of observations.
SingleCategory ==
    /\ Len(before) = Len(after)
    /\ Cardinality(Range(cat)) = 1

C5_SingleCategoryFinishes ==
    SingleCategory =>
        /\ pc # "error"
        /\ pc = "done" =>
               /\ \A l \in Range(cat) : xMax.num = widths[l].top
               /\ Len(Ribbons) = 1
               /\ Ribbons[1].n = Len(before)

\* C6: when before and after differ in length, the error is raised with no
\* figure created, no setting altered and nothing drawn.
C6_MismatchLeavesSurfaceUntouched ==
    (Len(before) # Len(after) /\ Terminated) =>
        /\ pc = "error"
        /\ figures = 0
        /\ rc = {}
        /\ drawn = <<>>

\* C7: when the lookup of a category in the supplied colour map fails, no
\* block, label or ribbon has been drawn.
C7_MissingColourDrawsNothing ==
    (pc = "error" /\ err = "KeyError") => drawn = <<>>

\* C8: every ribbon drawn has a non-zero flow count, and a finished call has
\* drawn as many ribbons as there are pairs with a non-zero flow count.
C8_RibbonIffNonZeroFlow ==
    /\ \A k \in DOMAIN Ribbons : ns[Ribbons[k].l][Ribbons[k].l2] > 0
    /\ pc = "done" =>
           Len(Ribbons) = Cardinality({p \in Range(allLabels) \X Range(allLabels) :
                                          ns[p[1]][p[2]] > 0})

====
